---- MODULE Spec2Model ----
(***************************************************************************)
(* A model of the in-memory file system of src/src/memory.rs (MemoryFS,    *)
(* MemoryPath, MemoryFile).                                                *)
(*                                                                         *)
(* A path string is a sequence of characters.  A node of the tree is named *)
(* by the sequence of child names that leads to it from the root (the root *)
(* is <<>>); a child name is itself a string and may be empty.  Nodes are  *)
(* never removed, so this key also names the node's DataHandle (the        *)
(* Arc<RwLock<Vec<u8>>> shared by the node and by every MemoryFile opened   *)
(* on it).                                                                 *)
(*                                                                         *)
(* Spec, SpecTree, SpecSeek and SpecPath are of one calling thread, each   *)
(* call one step.  A panic unwinds that thread: it is recorded in ret and  *)
(* no further call is made.  SpecThreads is of several threads and takes   *)
(* every call apart at its lock acquisitions.                              *)
(***************************************************************************)
EXTENDS Integers, Sequences, FiniteSets, TLC

\* ------------------------------------------------------------------ bounds
MaxPathLen == 3
MaxHandles == 2
MaxLen == 3
MaxChunk == 2
\* The longest buffer the threads of SpecThreads write.
MaxThreadLen == 1
\* The width the model gives the u64 cursor and the i64 seek offset.
PosBits == 5

Chars == {"/", "a"}
Bytes == {0, 1}

SeqsUpTo(S, n) == UNION {[1..k -> S] : k \in 0..n}

PathStrings == SeqsUpTo(Chars, MaxPathLen)
\* The paths the tree is driven with: every string, and a name two levels down.
TreePaths == PathStrings \cup {<<"/", "a", "/", "a">>}
\* The paths the file engine is driven with: one name under the root, with
\* and without a trailing separator.
FilePaths == {<<"/", "a">>, <<"/", "a", "/">>}
\* A path the file engine never makes the parent of.
DeepPaths == {<<"/", "a", "/", "a", "/", "a">>}
Chunks == SeqsUpTo(Bytes, MaxChunk)
Positions == 0..(MaxLen + 1)
Capacities == 0..MaxLen
SeekOffsets == (0 - (MaxLen + 1))..(MaxLen + 1)

\* u64 and i64 at the model's width.
RECURSIVE Pow2(_)
Pow2(n) == IF n = 0 THEN 1 ELSE 2 * Pow2(n - 1)
U64 == 0..(Pow2(PosBits) - 1)
I64 == (0 - Pow2(PosBits - 1))..(Pow2(PosBits - 1) - 1)

Min(a, b) == IF a < b THEN a ELSE b
Max(a, b) == IF a < b THEN b ELSE a

\* ------------------------------------------------------------ path strings
Root == <<>>
Slash == <<"/">>

Reverse(s) == [i \in 1..Len(s) |-> s[Len(s) + 1 - i]]

HasSlash(s) == \E i \in 1..Len(s) : s[i] = "/"
FirstSlash(s) == CHOOSE i \in 1..Len(s) : s[i] = "/" /\ \A j \in 1..(i - 1) : s[j] # "/"
LastSlash(s) == CHOOSE i \in 1..Len(s) : s[i] = "/" /\ \A j \in (i + 1)..Len(s) : s[j] # "/"

\* str::split("/"): the pieces between separators, empty pieces included.
RECURSIVE Split(_)
Split(s) ==
    IF ~HasSlash(s) THEN <<s>>
    ELSE <<SubSeq(s, 1, FirstSlash(s) - 1)>> \o Split(SubSeq(s, FirstSlash(s) + 1, Len(s)))

\* The component stack of with_node and mkdir: split, reverse, pop.  The
\* next component to visit is the last element.
Components(path) ==
    LET c == Reverse(Split(path))
    IN  SubSeq(c, 1, Len(c) - 1)

None == [some |-> FALSE]
Some(v) == [some |-> TRUE, val |-> v]

\* decompose_path: rsplitn(2, "/") gives the text after the last separator
\* and then, when there is a separator, the text before it.
decompose_path(path) ==
    IF HasSlash(path) THEN
        LET filename == SubSeq(path, LastSlash(path) + 1, Len(path))
            before == SubSeq(path, 1, LastSlash(path) - 1)
            par == IF before = <<>> THEN Slash ELSE before
        IN  IF filename = <<>>
            THEN [parent |-> None, name |-> par]
            ELSE [parent |-> Some(par), name |-> filename]
    ELSE [parent |-> None, name |-> path]

parent(path) == decompose_path(path).parent
file_name(path) == Some(decompose_path(path).name)

\* push: one separator unless the path already ends with one.
push(path, seg) ==
    IF Len(path) > 0 /\ path[Len(path)] = "/" THEN path \o seg ELSE path \o Slash \o seg

\* ------------------------------------------------------------------- state
VARIABLES
    root,   \* the tree under MemoryFSImpl's lock: node key -> NodeKind
    data,   \* the DataHandle of each node: node key -> bytes
    files,  \* the MemoryFile values the caller holds: slot -> NoFile or [data, pos]
    ret,    \* the last call and what it returned
    hist,   \* history: per slot, what its own writes alone would have produced
    threads, \* where each thread is in the call it is making
    locks   \* the guards alive on the tree's RwLock and on each DataHandle's

vars == <<root, data, files, ret, hist, threads, locks>>

Directory == "Directory"
File == "File"

NoFile == [open |-> FALSE]
MemoryFile(node, pos) == [open |-> TRUE, data |-> node, pos |-> pos]
Slots == 1..MaxHandles
FreeSlots == {h \in Slots : ~files[h].open}
NextSlot == CHOOSE h \in FreeSlots : \A g \in FreeSlots : h <= g
\* The slot a returned MemoryFile is kept in; 0 when the caller drops it at once.
SlotFor(keep) == IF keep THEN NextSlot ELSE 0

\* The history of a MemoryFile that create or append returned and nothing has
\* interfered with since: the path it came from, and the content its own
\* writes, in order, add up to on top of what it started with.
NoHist == [origin |-> "none", clean |-> FALSE, path |-> <<>>, expect |-> <<>>]
Clean(origin, path, expect) == [origin |-> origin, clean |-> TRUE, path |-> path, expect |-> expect]

\* What a call left in the caller's hands: Ok with a value, an Err value, or
\* a panic that unwound the caller.
\* A path call gives back a MemoryFile (kept in slot h) or nothing; a
\* MemoryFile call gives back a count or a position n and the bytes moved.
\* at and len are the cursor and the buffer length the call found.
PathResult(op, path, h, out, file, len) ==
    [op |-> op, path |-> path, h |-> h, out |-> out, file |-> file,
     n |-> 0, bytes |-> <<>>, at |-> 0, len |-> len, val |-> [ok |-> FALSE]]
FileResult(op, h, out, n, bytes, at, len) ==
    [op |-> op, path |-> <<>>, h |-> h, out |-> out, file |-> NoFile,
     n |-> n, bytes |-> bytes, at |-> at, len |-> len, val |-> [ok |-> FALSE]]
\* A path call that gives back a value: exists, metadata, read_dir, parent,
\* file_name, push.
QueryResult(op, path, out, val) ==
    [PathResult(op, path, 0, out, NoFile, 0) EXCEPT !.val = val]

Running == ret.out # "Panic"

\* ------------------------------------------------------------------ threads
\* Each thread owns the MemoryFile of its own slot.
Threads == Slots

\* A thread between calls, and a thread a panic has unwound.
Idle == [pc |-> "idle"]
Dead == [pc |-> "dead"]

\* A thread inside a call: what it called with, the node the call has
\* reached, and the lock and mode it waits for or holds.  create and append
\* have the parent they unwrapped and the name to enter.
At(pc, call, node, mode) ==
    [pc |-> pc, op |-> call.op, path |-> call.path, parent |-> call.parent,
     name |-> call.name, buf |-> call.buf, style |-> call.style, n |-> call.n,
     node |-> node, mode |-> mode]
PathCall(op, path) ==
    LET split == op \in {"create", "append"} /\ parent(path).some
    IN  [op |-> op, path |-> path,
         parent |-> IF split THEN parent(path).val ELSE <<>>,
         name |-> IF split THEN file_name(path).val ELSE <<>>,
         buf |-> <<>>, style |-> "Start", n |-> 0]
FileCall(op, buf, style, n) ==
    [op |-> op, path |-> <<>>, parent |-> <<>>, name |-> <<>>,
     buf |-> buf, style |-> style, n |-> n]

\* The RwLock of the tree and the RwLock of a node's DataHandle.  held is the
\* set of guards alive; poisoned the locks a panic has dropped a write guard
\* of.
TreeLock == [tree |-> TRUE, node |-> <<>>]
DataLock(node) == [tree |-> FALSE, node |-> node]
Guard(t, lock, mode) == [t |-> t, lock |-> lock, mode |-> mode]
NoLocks == [held |-> {}, poisoned |-> {}]

\* RwLock: a writer needs the lock to itself, a reader needs no writer.
Free(lock, mode) ==
    \A g \in locks.held : g.lock = lock => (mode = "read" /\ g.mode = "read")
HeldBy(t) == {g \in locks.held : g.t = t}

\* A slip the claims below must notice: guards that are never dropped.
ReleaseNothing(t) == locks

\* The guards of t dropped at the end of their scope.
Release(t) == [locks EXCEPT !.held = @ \ HeldBy(t)]
\* The guards of t dropped by a panic: a write guard poisons its lock.
Unwind(t) ==
    [held |-> locks.held \ HeldBy(t),
     poisoned |-> locks.poisoned \cup {g.lock : g \in {x \in HeldBy(t) : x.mode = "write"}}]

\* ---------------------------------------------------------------- traversal
Pop(components) == SubSeq(components, 1, Len(components) - 1)
Last(components) == components[Len(components)]

\* traverse_with: the node the components lead to, or the error naming the
\* missing component.  Empty components are skipped.
RECURSIVE traverse_with(_, _, _)
traverse_with(tree, node, components) ==
    IF components = <<>> THEN [ok |-> TRUE, node |-> node]
    ELSE LET component == Last(components)
         IN  IF component = <<>> THEN traverse_with(tree, node, Pop(components))
             ELSE IF Append(node, component) \in DOMAIN tree
                  THEN traverse_with(tree, Append(node, component), Pop(components))
                  ELSE [ok |-> FALSE, missing |-> component]

with_node(tree, path) == traverse_with(tree, Root, Components(path))

\* A slip the claims below must notice: an insert that replaces the child.
insert_replacing(tree, node, name, newKind) ==
    [k \in DOMAIN tree \cup {Append(node, name)} |->
        IF k = Append(node, name) THEN newKind ELSE tree[k]]

\* entry(name).or_insert_with(new): the tree with the child present.
or_insert_with(tree, node, name, newKind) ==
    IF Append(node, name) \in DOMAIN tree THEN tree
    ELSE tree @@ (Append(node, name) :> newKind)

\* traverse_mkdir: the tree with every component entered, missing ones
\* inserted as directories.  No component is skipped.
RECURSIVE traverse_mkdir(_, _, _)
traverse_mkdir(tree, node, components) ==
    IF components = <<>> THEN tree
    ELSE LET component == Last(components)
         IN  traverse_mkdir(or_insert_with(tree, node, component, Directory),
                            Append(node, component), Pop(components))

\* A node inserted by new_directory / new_file comes with an empty DataHandle.
WithNewData(tree) == [k \in DOMAIN tree |-> IF k \in DOMAIN data THEN data[k] ELSE <<>>]

\* ------------------------------------------------------------------ queries
exists(path) == with_node(root, path).ok

\* A slip the claims below must notice: a length kept from the node's making.
MemoryMetadataCached(kind, vec) == [ok |-> TRUE, kind |-> kind, len |-> 0]

\* FsNode::metadata: the kind, and the length read from the DataHandle.
MemoryMetadata(kind, vec) == [ok |-> TRUE, kind |-> kind, len |-> Len(vec)]

\* MemoryPath::metadata in a tree with its buffers.
metadata_in(tree, bufs, path) ==
    LET r == with_node(tree, path)
    IN  IF r.ok THEN MemoryMetadata(tree[r.node], bufs[r.node]) ELSE [ok |-> FALSE]

metadata(path) == metadata_in(root, data, path)

is_dir(m) == m.kind = Directory
is_file(m) == m.kind = File

Children(tree, node) == {k \in DOMAIN tree : Len(k) = Len(node) + 1 /\ SubSeq(k, 1, Len(node)) = node}

read_dir(path) ==
    LET r == with_node(root, path)
    IN  IF r.ok THEN [ok |-> TRUE,
                      entries |-> {path \o Slash \o Last(k) : k \in Children(root, r.node)}]
        ELSE [ok |-> FALSE]


\* ------------------------------------------------------- MemoryFile, purely
\* A slip the claims below must notice: a resize that fills with ones.
ZerosAsOnes(n) == [i \in 1..n |-> 1]

\* vec.resize(len + amt, 0): the amt bytes the resize adds.
Zeros(n) == [i \in 1..n |-> 0]

\* Read::read on the bytes from the cursor on.  The slice [pos..] panics when
\* pos is past the end of the vector.
read(vec, pos, cap) ==
    IF pos > Len(vec) THEN [panic |-> TRUE]
    ELSE LET rest == SubSeq(vec, pos + 1, Len(vec))
             n == Min(cap, Len(rest))
         IN  [panic |-> FALSE, n |-> n, bytes |-> SubSeq(rest, 1, n), pos |-> pos + n]

\* A slip the claims below must notice: a cursor the write leaves behind.
bump_forgotten(pos, buf) == pos

\* "Bump us forward": the cursor after the write.
bump(pos, buf) == pos + Len(buf)

\* Write::write: resize with zeros up to the cursor, overwrite what fits in
\* the space from the cursor to the end, extend with the rest.
write(vec, pos, buf) ==
    LET len == Len(vec)
        amt == IF pos > len THEN pos - len ELSE 0
        resized == vec \o Zeros(amt)
        space == Len(resized) - pos
        left == SubSeq(buf, 1, Min(space, Len(buf)))
        right == SubSeq(buf, Min(space, Len(buf)) + 1, Len(buf))
        copied == [i \in 1..Len(resized) |->
                     IF pos < i /\ i <= pos + Len(left) THEN left[i - pos] ELSE resized[i]]
    IN  [vec |-> copied \o right, pos |-> bump(pos, buf), n |-> Len(buf)]

\* `as i64` of a u64, and the i64 a wrapping addition leaves.
AsI64(u) == IF u >= Pow2(PosBits - 1) THEN u - Pow2(PosBits) ELSE u
WrapI64(x) == ((x + Pow2(PosBits - 1)) % Pow2(PosBits)) - Pow2(PosBits - 1)

\* Seek::seek, as the set of outcomes the build can produce.  Start returns
\* at once.  End and Current add in i64: an addition that overflows panics
\* with overflow checks on and wraps with them off.  A negative position is
\* refused.
SeekResult(out, pos) == [out |-> out, pos |-> pos]
seek(vec, pos, style, n) ==
    IF style = "Start" THEN {SeekResult("Ok", n)}
    ELSE LET base == IF style = "End" THEN Len(vec) ELSE AsI64(pos)
             p == WrapI64(base + n)
             checked == IF p < 0 THEN SeekResult("InvalidInput", pos) ELSE SeekResult("Ok", p)
         IN  IF base + n \in I64 THEN {checked} ELSE {checked, SeekResult("Panic", pos)}

SeekStyles == {"Start", "End", "Current"}
\* SeekFrom::Start carries a u64, End and Current an i64.
SeekArg(style, n) == IF style = "Start" THEN n \in U64 ELSE n \in I64

\* Slips the claims below must notice: open at the end of the data, append
\* at its start, a create that leaves the old bytes in place.
open_pos_at_end(vec) == Len(vec)
append_pos_at_start(vec) == 0
clear_nothing(vec) == vec

\* The cursor of a MemoryFile made by open, create and append.
open_pos(vec) == 0
create_pos(vec) == 0
append_pos(vec) == Len(vec)
\* create's data.0.write().unwrap().clear()
clear(vec) == <<>>

\* read_to_end through a MemoryFile at pos: read until a read returns 0.
RECURSIVE read_to_end(_, _, _)
read_to_end(vec, pos, cap) ==
    LET r == read(vec, pos, cap)
    IN  IF r.panic THEN [panic |-> TRUE]
        ELSE IF r.n = 0 THEN [panic |-> FALSE, bytes |-> <<>>]
        ELSE LET more == read_to_end(vec, r.pos, cap)
             IN  IF more.panic THEN more ELSE [panic |-> FALSE, bytes |-> r.bytes \o more.bytes]

\* ------------------------------------------------------------------ history
\* Every other MemoryFile on the node has been interfered with.
Disturb(h, node) ==
    [g \in Slots |-> IF g # h /\ files[g].open /\ files[g].data = node THEN NoHist ELSE hist[g]]

\* ------------------------------------------------------------------ actions
Init ==
    /\ root = (Root :> Directory)
    /\ data = (Root :> <<>>)
    /\ files = [h \in Slots |-> NoFile]
    /\ ret = PathResult("new", <<>>, 0, "Ok", NoFile, 0)
    /\ hist = [h \in Slots |-> NoHist]
    /\ threads = [t \in Threads |-> Idle]
    /\ locks = NoLocks

Mkdir(path) ==
    /\ Running
    /\ UNCHANGED <<threads, locks>>
    /\ root' = traverse_mkdir(root, Root, Components(path))
    /\ data' = WithNewData(root')
    /\ ret' = PathResult("mkdir", path, 0, "Ok", NoFile, 0)
    /\ UNCHANGED <<files, hist>>

\* The caller keeps the MemoryFile a path call returned (in a free slot) or
\* drops it at once.
Keep(keep, file, others, mine) ==
    /\ keep => FreeSlots # {}
    /\ files' = IF keep THEN [files EXCEPT ![SlotFor(keep)] = file] ELSE files
    /\ hist' = IF keep THEN [others EXCEPT ![SlotFor(keep)] = mine] ELSE others

Open(path, keep) ==
    /\ Running
    /\ UNCHANGED <<threads, locks>>
    /\ LET r == with_node(root, path)
       IN  IF ~r.ok
           THEN /\ ret' = PathResult("open", path, 0, "Panic", NoFile, 0)
                /\ UNCHANGED <<root, data, files, hist>>
           ELSE LET file == MemoryFile(r.node, open_pos(data[r.node]))
                IN  /\ Keep(keep, file, hist, NoHist)
                    /\ ret' = PathResult("open", path, SlotFor(keep), "Ok", file, Len(data[r.node]))
                    /\ UNCHANGED <<root, data>>

\* The closure create and append run on the parent: with_node on the parent
\* path, entry(file_name).or_insert_with(new_file).
FileNodeAt(parent_path, name) ==
    LET r == with_node(root, parent_path)
    IN  IF ~r.ok THEN [out |-> "NotFound"]
        ELSE [out |-> "Ok",
              tree |-> or_insert_with(root, r.node, name, File),
              node |-> Append(r.node, name)]

\* The part create and append share: parent().unwrap(), then the closure.
FileNode(path) ==
    IF ~parent(path).some THEN [out |-> "Panic"]
    ELSE FileNodeAt(parent(path).val, file_name(path).val)

\* A slip the claims below must notice: a create that makes the directories
\* it did not find before it reports them missing.
CreateMakingParents(path, keep) ==
    /\ Running
    /\ UNCHANGED <<threads, locks>>
    /\ LET f == FileNode(path)
       IN  IF f.out = "Panic"
           THEN /\ ret' = PathResult("create", path, 0, f.out, NoFile, 0)
                /\ UNCHANGED <<root, data, files, hist>>
           ELSE IF f.out = "NotFound"
           THEN /\ root' = traverse_mkdir(root, Root, Components(parent(path).val))
                /\ data' = WithNewData(root')
                /\ ret' = PathResult("create", path, 0, f.out, NoFile, 0)
                /\ UNCHANGED <<files, hist>>
           ELSE LET cleared == [WithNewData(f.tree) EXCEPT ![f.node] = clear(@)]
                    file == MemoryFile(f.node, create_pos(cleared[f.node]))
                IN  /\ root' = f.tree
                    /\ data' = cleared
                    /\ Keep(keep, file, Disturb(0, f.node), Clean("create", path, <<>>))
                    /\ ret' = PathResult("create", path, SlotFor(keep), "Ok", file,
                                          Len(WithNewData(f.tree)[f.node]))

Create(path, keep) ==
    /\ Running
    /\ UNCHANGED <<threads, locks>>
    /\ LET f == FileNode(path)
       IN  IF f.out # "Ok"
           THEN /\ ret' = PathResult("create", path, 0, f.out, NoFile, 0)
                /\ UNCHANGED <<root, data, files, hist>>
           ELSE LET cleared == [WithNewData(f.tree) EXCEPT ![f.node] = clear(@)]
                    file == MemoryFile(f.node, create_pos(cleared[f.node]))
                IN  /\ root' = f.tree
                    /\ data' = cleared
                    /\ Keep(keep, file, Disturb(0, f.node), Clean("create", path, <<>>))
                    /\ ret' = PathResult("create", path, SlotFor(keep), "Ok", file,
                                          Len(WithNewData(f.tree)[f.node]))

AppendTo(path, keep) ==
    /\ Running
    /\ UNCHANGED <<threads, locks>>
    /\ LET f == FileNode(path)
       IN  IF f.out # "Ok"
           THEN /\ ret' = PathResult("append", path, 0, f.out, NoFile, 0)
                /\ UNCHANGED <<root, data, files, hist>>
           ELSE LET same == WithNewData(f.tree)
                    file == MemoryFile(f.node, append_pos(same[f.node]))
                IN  /\ root' = f.tree
                    /\ data' = same
                    /\ Keep(keep, file, hist, Clean("append", path, same[f.node]))
                    /\ ret' = PathResult("append", path, SlotFor(keep), "Ok", file, Len(same[f.node]))

Read(h, cap) ==
    /\ Running
    /\ UNCHANGED <<threads, locks>>
    /\ files[h].open
    /\ LET vec == data[files[h].data]
           r == read(vec, files[h].pos, cap)
       IN  IF r.panic
           THEN /\ ret' = FileResult("read", h, "Panic", 0, <<>>, files[h].pos, Len(vec))
                /\ UNCHANGED <<root, data, files, hist>>
           ELSE /\ files' = [files EXCEPT ![h].pos = r.pos]
                /\ ret' = FileResult("read", h, "Ok", r.n, r.bytes, files[h].pos, Len(vec))
                /\ UNCHANGED <<root, data, hist>>

\* A write the memory bound MaxLen has room for.
Write(h, buf) ==
    /\ Running
    /\ UNCHANGED <<threads, locks>>
    /\ files[h].open
    /\ Max(Len(data[files[h].data]), files[h].pos + Len(buf)) <= MaxLen
    /\ LET vec == data[files[h].data]
           w == write(vec, files[h].pos, buf)
       IN  /\ data' = [data EXCEPT ![files[h].data] = w.vec]
           /\ files' = [files EXCEPT ![h].pos = w.pos]
           /\ hist' = [Disturb(h, files[h].data) EXCEPT
                          ![h] = IF @.clean THEN [@ EXCEPT !.expect = @ \o buf] ELSE @]
           /\ ret' = FileResult("write", h, "Ok", w.n, buf, files[h].pos, Len(vec))
    /\ UNCHANGED root

\* A seek that leaves the cursor at or below limit.
Seek(h, style, n, limit) ==
    /\ Running
    /\ UNCHANGED <<threads, locks>>
    /\ files[h].open
    /\ SeekArg(style, n)
    /\ \E s \in seek(data[files[h].data], files[h].pos, style, n) :
           /\ s.pos <= limit
           /\ files' = [files EXCEPT ![h].pos = s.pos]
           /\ hist' = [hist EXCEPT ![h] = IF s.pos = files[h].pos THEN @ ELSE NoHist]
           /\ ret' = FileResult("seek", h, s.out, IF s.out = "Ok" THEN s.pos ELSE 0, <<>>,
                                files[h].pos, Len(data[files[h].data]))
    /\ UNCHANGED <<root, data>>

\* A MemoryFile going out of scope.
Drop(h) ==
    /\ Running
    /\ UNCHANGED <<threads, locks>>
    /\ files[h].open
    /\ files' = [files EXCEPT ![h] = NoFile]
    /\ hist' = [hist EXCEPT ![h] = NoHist]
    /\ ret' = FileResult("drop", h, "Ok", 0, <<>>, 0, 0)
    /\ UNCHANGED <<root, data>>

\* exists, metadata and read_dir: what with_node gives, handed to the caller.
Exists(path) ==
    /\ Running
    /\ ret' = QueryResult("exists", path, "Ok", [ok |-> exists(path)])
    /\ UNCHANGED <<root, data, files, hist, threads, locks>>

Metadata(path) ==
    /\ Running
    /\ ret' = QueryResult("metadata", path, IF metadata(path).ok THEN "Ok" ELSE "NotFound",
                           metadata(path))
    /\ UNCHANGED <<root, data, files, hist, threads, locks>>

ReadDir(path) ==
    /\ Running
    /\ ret' = QueryResult("read_dir", path, IF read_dir(path).ok THEN "Ok" ELSE "NotFound",
                           read_dir(path))
    /\ UNCHANGED <<root, data, files, hist, threads, locks>>

\* The file engine: a few paths, every MemoryFile operation.
Next ==
    \/ \E path \in FilePaths : Mkdir(path)
    \/ \E path \in FilePaths, keep \in BOOLEAN : Open(path, keep)
    \/ \E path \in FilePaths \cup DeepPaths, keep \in BOOLEAN : Create(path, keep)
    \/ \E path \in FilePaths \cup DeepPaths, keep \in BOOLEAN : AppendTo(path, keep)
    \/ \E path \in FilePaths \cup DeepPaths : Metadata(path)
    \/ \E path \in FilePaths \cup DeepPaths : ReadDir(path)
    \/ \E h \in Slots, cap \in Capacities : Read(h, cap)
    \/ \E h \in Slots, buf \in Chunks : Write(h, buf)
    \/ \E h \in Slots, style \in SeekStyles, n \in SeekOffsets : Seek(h, style, n, MaxLen + 1)
    \/ \E h \in Slots : Drop(h)

Spec == Init /\ [][Next]_vars

\* The tree and the path resolver alone, over every path string: no byte is
\* written and every returned MemoryFile is dropped at once.
NextTree ==
    \/ \E path \in TreePaths : Mkdir(path)
    \/ \E path \in TreePaths : Open(path, FALSE)
    \/ \E path \in TreePaths : Create(path, FALSE)
    \/ \E path \in TreePaths : AppendTo(path, FALSE)
    \/ \E path \in TreePaths : Exists(path)
    \/ \E path \in TreePaths : Metadata(path)
    \/ \E path \in TreePaths : ReadDir(path)

SpecTree == Init /\ [][NextTree]_vars

\* One file and the whole range of the cursor.
NextSeek ==
    \/ FreeSlots = Slots /\ Create(<<"/", "a">>, TRUE)
    \/ \E h \in Slots, buf \in Chunks : Write(h, buf)
    \/ \E h \in Slots, style \in SeekStyles, n \in U64 \cup I64 : Seek(h, style, n, Pow2(PosBits) - 1)

SpecSeek == Init /\ [][NextSeek]_vars

\* ------------------------------------------------- the calls, lock by lock
\* What the threads call with.  A thread keeps the MemoryFile a call returns
\* in its slot and drops every other value and error; ret stays as it is.
ThreadPaths == {<<"/", "a">>}
PathOps == {"mkdir", "exists", "metadata", "read_dir", "open", "create", "append"}
ThreadChunks == SeqsUpTo({1}, MaxThreadLen) \ {<<>>}
ThreadOffsets == (0 - 1)..1

\* The call of thread t returns, a value or an error: its guards go out of
\* scope.
Returns(t) ==
    /\ threads' = [threads EXCEPT ![t] = Idle]
    /\ locks' = Release(t)

\* The call of thread t panics: the thread unwinds and drops its guards.
Panics(t) ==
    /\ threads' = [threads EXCEPT ![t] = Dead]
    /\ locks' = Unwind(t)

\* Thread t calls a path operation.  create and append unwrap parent()
\* before they take a lock; every operation then asks for the tree's lock.
CallPath(t, op, path) ==
    /\ threads[t] = Idle
    /\ threads' = [threads EXCEPT ![t] =
                      IF op \in {"create", "append"} /\ ~parent(path).some
                      THEN Dead
                      ELSE At("wait_tree", PathCall(op, path), Root, "write")]
    /\ UNCHANGED <<root, data, files, ret, hist, locks>>

\* Thread t calls read or write on its MemoryFile: both ask for the write
\* lock of the buffer.
CallRead(t, cap) ==
    /\ threads[t] = Idle
    /\ files[t].open
    /\ threads' = [threads EXCEPT ![t] =
                      At("wait_buf", FileCall("read", <<>>, "Start", cap), files[t].data, "write")]
    /\ UNCHANGED <<root, data, files, ret, hist, locks>>

CallWrite(t, buf) ==
    /\ threads[t] = Idle
    /\ files[t].open
    /\ files[t].pos + Len(buf) <= MaxThreadLen
    /\ threads' = [threads EXCEPT ![t] =
                      At("wait_buf", FileCall("write", buf, "Start", 0), files[t].data, "write")]
    /\ UNCHANGED <<root, data, files, ret, hist, locks>>

\* Thread t calls seek: Start and Current take no lock and return at once,
\* End asks for the read lock of the buffer.
CallSeek(t, style, n) ==
    /\ threads[t] = Idle
    /\ files[t].open
    /\ SeekArg(style, n)
    /\ IF style = "End"
       THEN /\ threads' = [threads EXCEPT ![t] =
                              At("wait_buf", FileCall("seek", <<>>, style, n), files[t].data, "read")]
            /\ UNCHANGED files
       ELSE \E s \in seek(data[files[t].data], files[t].pos, style, n) :
                /\ s.pos <= MaxThreadLen + 1
                /\ files' = [files EXCEPT ![t].pos = s.pos]
                /\ threads' = [threads EXCEPT ![t] = IF s.out = "Panic" THEN Dead ELSE Idle]
    /\ UNCHANGED <<root, data, ret, hist, locks>>

\* self.fs.write().unwrap(): the write guard of the tree, or a panic when the
\* lock is poisoned.
LockTree(t) ==
    /\ threads[t].pc = "wait_tree"
    /\ Free(TreeLock, "write")
    /\ IF TreeLock \in locks.poisoned
       THEN Panics(t)
       ELSE /\ threads' = [threads EXCEPT ![t].pc = "in_tree"]
            /\ locks' = [locks EXCEPT !.held = @ \cup {Guard(t, TreeLock, "write")}]
    /\ UNCHANGED <<root, data, files, ret, hist>>

\* What a path operation does under the tree's guard.  mkdir, exists,
\* read_dir and open are done with it; metadata goes on to the buffer's lock
\* inside the guard; create and append drop the guard first.  open unwraps
\* the result after the guard is gone.
RunTree(t) ==
    /\ threads[t].pc = "in_tree"
    /\ LET c == threads[t]
           r == with_node(root, c.path)
           f == FileNodeAt(c.parent, c.name)
       IN  \/ /\ c.op = "mkdir"
              /\ root' = traverse_mkdir(root, Root, Components(c.path))
              /\ data' = WithNewData(root')
              /\ Returns(t)
              /\ UNCHANGED files
           \/ /\ c.op \in {"exists", "read_dir"}
              /\ Returns(t)
              /\ UNCHANGED <<root, data, files>>
           \/ /\ c.op = "metadata"
              /\ IF r.ok
                 THEN /\ threads' = [threads EXCEPT ![t] = At("wait_buf", c, r.node, "read")]
                      /\ UNCHANGED locks
                 ELSE Returns(t)
              /\ UNCHANGED <<root, data, files>>
           \/ /\ c.op = "open"
              /\ IF r.ok
                 THEN /\ files' = [files EXCEPT ![t] =
                                     MemoryFile(r.node, open_pos(data[r.node]))]
                      /\ Returns(t)
                 ELSE /\ threads' = [threads EXCEPT ![t] = Dead]
                      /\ locks' = Release(t)
                      /\ UNCHANGED files
              /\ UNCHANGED <<root, data>>
           \/ /\ c.op \in {"create", "append"}
              /\ IF f.out = "Ok"
                 THEN /\ root' = f.tree
                      /\ data' = WithNewData(f.tree)
                      /\ threads' = [threads EXCEPT ![t] =
                                        At("wait_buf", c, f.node,
                                           IF c.op = "create" THEN "write" ELSE "read")]
                      /\ locks' = Release(t)
                      /\ UNCHANGED files
                 ELSE /\ Returns(t)
                      /\ UNCHANGED <<root, data, files>>
    /\ UNCHANGED <<ret, hist>>

\* data.0.read().unwrap() / data.0.write().unwrap(): the guard of the
\* buffer, or a panic when the lock is poisoned.
LockBuf(t) ==
    /\ threads[t].pc = "wait_buf"
    /\ Free(DataLock(threads[t].node), threads[t].mode)
    /\ IF DataLock(threads[t].node) \in locks.poisoned
       THEN Panics(t)
       ELSE /\ threads' = [threads EXCEPT ![t].pc = "in_buf"]
            /\ locks' = [locks EXCEPT !.held = @ \cup
                            {Guard(t, DataLock(threads[t].node), threads[t].mode)}]
    /\ UNCHANGED <<root, data, files, ret, hist>>

\* What a call does under the buffer's guard.
RunBuf(t) ==
    /\ threads[t].pc = "in_buf"
    /\ LET c == threads[t]
           vec == data[c.node]
       IN  \/ /\ c.op = "metadata"
              /\ Returns(t)
              /\ UNCHANGED <<data, files>>
           \/ /\ c.op = "create"
              /\ data' = [data EXCEPT ![c.node] = clear(@)]
              /\ files' = [files EXCEPT ![t] = MemoryFile(c.node, create_pos(clear(vec)))]
              /\ Returns(t)
           \/ /\ c.op = "append"
              /\ files' = [files EXCEPT ![t] = MemoryFile(c.node, append_pos(vec))]
              /\ Returns(t)
              /\ UNCHANGED data
           \/ /\ c.op = "read"
              /\ IF read(vec, files[t].pos, c.n).panic
                 THEN Panics(t) /\ UNCHANGED files
                 ELSE /\ Returns(t)
                      /\ files' = [files EXCEPT ![t].pos = read(vec, files[t].pos, c.n).pos]
              /\ UNCHANGED data
           \/ /\ c.op = "write"
              /\ data' = [data EXCEPT ![c.node] = write(vec, files[t].pos, c.buf).vec]
              /\ files' = [files EXCEPT ![t].pos = write(vec, files[t].pos, c.buf).pos]
              /\ Returns(t)
           \/ /\ c.op = "seek"
              /\ \E s \in seek(vec, files[t].pos, c.style, c.n) :
                     /\ files' = [files EXCEPT ![t].pos = s.pos]
                     /\ IF s.out = "Panic" THEN Panics(t) ELSE Returns(t)
              /\ UNCHANGED data
    /\ UNCHANGED <<root, ret, hist>>

\* Several threads on one file system, each call taken apart at its locks.
NextThreads ==
    \/ \E t \in Threads, op \in PathOps, path \in ThreadPaths : CallPath(t, op, path)
    \/ \E t \in Threads : CallRead(t, MaxThreadLen)
    \/ \E t \in Threads, buf \in ThreadChunks : CallWrite(t, buf)
    \/ \E t \in Threads, style \in SeekStyles, n \in ThreadOffsets : CallSeek(t, style, n)
    \/ \E t \in Threads : LockTree(t)
    \/ \E t \in Threads : RunTree(t)
    \/ \E t \in Threads : LockBuf(t)
    \/ \E t \in Threads : RunBuf(t)

SpecThreads == Init /\ [][NextThreads]_vars

\* What thread t does inside a call.
Step(t) == LockTree(t) \/ RunTree(t) \/ LockBuf(t) \/ RunBuf(t)

\* Fair scheduling: a thread inside a call that can take a step again and
\* again does take one; a lock that is free again and again is got.
FairThreads == SpecThreads /\ \A t \in Threads : SF_vars(Step(t))

\* parent, file_name and push of a MemoryPath, each handed to the caller.
\* push changes the MemoryPath it is called on: val.path is its string after.
Parent(path) ==
    /\ Running
    /\ ret' = QueryResult("parent", path, "Ok", parent(path))
    /\ UNCHANGED <<root, data, files, hist, threads, locks>>

FileName(path) ==
    /\ Running
    /\ ret' = QueryResult("file_name", path, "Ok", file_name(path))
    /\ UNCHANGED <<root, data, files, hist, threads, locks>>

Push(path, seg) ==
    /\ Running
    /\ ret' = QueryResult("push", path, "Ok", [seg |-> seg, path |-> push(path, seg)])
    /\ UNCHANGED <<root, data, files, hist, threads, locks>>

\* The path strings alone: every string taken apart and put together.
NextPath ==
    \/ \E path \in PathStrings : Parent(path)
    \/ \E path \in PathStrings : FileName(path)
    \/ \E path \in PathStrings, seg \in PathStrings : Push(path, seg)

SpecPath == Init /\ [][NextPath]_vars

\* ------------------------------------------------------------------- claims

\* C1: the chunks written in order through the MemoryFile create(P) returned,
\* with no other writer on P meanwhile, are what a fresh open(P) reads back
\* to the end: their concatenation, and nothing when there was no chunk.
C1_CreateWriteReadBack ==
    \A h \in Slots :
        (files[h].open /\ hist[h].clean /\ hist[h].origin = "create") =>
            LET r == with_node(root, hist[h].path)
            IN  /\ r.ok
                /\ \A cap \in 1..MaxLen :
                       LET all == read_to_end(data[r.node], open_pos(data[r.node]), cap)
                       IN  ~all.panic /\ all.bytes = hist[h].expect

\* Two chunks have gone through a create handle and the path has just been
\* opened afresh.
C1_Witness ==
    \E h \in Slots :
        /\ files[h].open /\ hist[h].clean /\ hist[h].origin = "create"
        /\ hist[h].expect = <<1, 0, 1>>
        /\ ret.op = "open" /\ ret.out = "Ok" /\ ret.path = hist[h].path
        /\ ret.h # h /\ ret.h # 0

\* C2: a write of m bytes at cursor k on a buffer of length L returns m,
\* leaves the cursor at k + m and the buffer at length max(L, k + m), with
\* the written bytes at [k, k + m), the old bytes everywhere else below L,
\* and zeros at [L, k) when k > L.
C2_WriteEffect ==
    [][\A h \in Slots, buf \in Chunks :
          (ret'.op = "write" /\ Write(h, buf)) =>
              LET k == files[h].pos
                  old == data[files[h].data]
                  new == data'[files[h].data]
                  L == Len(old)
                  m == Len(buf)
              IN  /\ ret'.out = "Ok" /\ ret'.n = m
                  /\ files'[h].pos = k + m
                  /\ Len(new) = Max(L, k + m)
                  /\ \A i \in 1..m : new[k + i] = buf[i]
                  /\ \A i \in 1..L : (i <= k \/ i > k + m) => new[i] = old[i]
                  /\ \A i \in (L + 1)..k : new[i] = 0]_vars

\* A write has just landed past the end of a non-empty buffer.
C2_Witness ==
    /\ ret.op = "write" /\ ret.out = "Ok"
    /\ ret.len > 0 /\ ret.at > ret.len /\ ret.n > 0

\* A write has just straddled the end of the buffer.
C2_WitnessStraddle ==
    /\ ret.op = "write" /\ ret.out = "Ok"
    /\ ret.at < ret.len /\ ret.at + ret.n > ret.len

\* C3: a read into a buffer of capacity c never fails, wherever the cursor
\* is: it returns min(bytes left from the cursor, c), 0 at or past the end,
\* moves the cursor by that much and leaves the shared buffer alone.
C3_ReadNeverFails ==
    [][\A h \in Slots, cap \in Capacities :
          (ret'.op = "read" /\ Read(h, cap)) =>
              LET k == files[h].pos
                  L == Len(data[files[h].data])
                  left == IF k >= L THEN 0 ELSE L - k
              IN  /\ ret'.out = "Ok"
                  /\ ret'.n = Min(left, cap)
                  /\ files'[h].pos = k + ret'.n
                  /\ data' = data]_vars

\* The ancestors of a path: what is before each separator, the root for what
\* is before the first.
Ancestors(path) ==
    {IF i = 1 THEN Slash ELSE SubSeq(path, 1, i - 1) : i \in {j \in 1..Len(path) : path[j] = "/"}}

IsAbsolute(path) == Len(path) > 0 /\ path[1] = "/"

\* C4: after mkdir(P) on an absolute path P, P exists and so does every
\* ancestor of P.
C4_MkdirMakesPathExist ==
    (ret.op = "mkdir" /\ IsAbsolute(ret.path)) =>
        /\ ret.out = "Ok"
        /\ exists(ret.path)
        /\ \A q \in Ancestors(ret.path) : exists(q)

\* C5: after mkdir(P) on an absolute path P, metadata(P) succeeds and says
\* directory, not file, of length 0.
C5_MkdirMetadata ==
    (ret.op = "mkdir" /\ IsAbsolute(ret.path)) =>
        LET m == metadata(ret.path)
        IN  m.ok /\ is_dir(m) /\ ~is_file(m) /\ m.len = 0

\* C6: open(P) gives the caller a NotFound error when a segment of P is
\* missing, and a MemoryFile at cursor 0 on the node's buffer when P resolves.
C6_OpenOutcome ==
    ret.op = "open" =>
        LET r == with_node(root, ret.path)
        IN  IF r.ok
            THEN ret.out = "Ok" /\ ret.file.open /\ ret.file.pos = 0 /\ ret.file.data = r.node
            ELSE ret.out = "NotFound"

\* C7: create(P) on a node that is already there empties its buffer in place:
\* every MemoryFile already open on it, whatever its cursor, is still on that
\* buffer and finds length 0, metadata(P) says length 0, the node and its
\* kind are the ones before, and the MemoryFile returned is at cursor 0.
C7_CreateTruncatesInPlace ==
    [][\A path \in FilePaths, keep \in BOOLEAN :
          (/\ ret'.op = "create"
           /\ Create(path, keep)
           /\ FileNode(path).out = "Ok"
           /\ FileNode(path).node \in DOMAIN root) =>
              LET node == FileNode(path).node
              IN  /\ ret'.out = "Ok"
                  /\ \A g \in Slots :
                         (files[g].open /\ files[g].data = node) =>
                             /\ files'[g] = files[g]
                             /\ seek(data'[files'[g].data], files'[g].pos, "End", 0) = {SeekResult("Ok", 0)}
                  /\ metadata_in(root', data', path).ok
                  /\ metadata_in(root', data', path).len = 0
                  /\ DOMAIN root' = DOMAIN root /\ root'[node] = root[node]
                  /\ with_node(root', path).node = node
                  /\ metadata_in(root', data', path).kind = metadata(path).kind
                  /\ ret'.file.data = node /\ ret'.file.pos = 0]_vars

\* A create has just emptied a buffer that held bytes while another
\* MemoryFile, its cursor past the start, was open on the same node.
C7_Witness ==
    /\ ret.op = "create" /\ ret.out = "Ok" /\ ret.len > 0
    /\ \E g \in Slots :
           /\ g # ret.h /\ files[g].open
           /\ files[g].data = ret.file.data /\ files[g].pos > 0

\* C8: append(P) returns a MemoryFile whose cursor is the length the buffer
\* had (0 for a new file) and changes no buffer; with no other writer, the
\* buffer then holds what it held followed by what went through that
\* MemoryFile.
C8_AppendCursor ==
    \A path \in FilePaths, keep \in BOOLEAN :
        (ret'.op = "append" /\ AppendTo(path, keep) /\ FileNode(path).out = "Ok") =>
            LET node == FileNode(path).node
            IN  /\ ret'.out = "Ok" /\ ret'.file.data = node
                /\ ret'.file.pos = (IF node \in DOMAIN data THEN Len(data[node]) ELSE 0)
                /\ \A k \in DOMAIN data : data'[k] = data[k]
                /\ \A k \in DOMAIN data' \ DOMAIN data : data'[k] = <<>>

C8_AppendAfterPrior ==
    \A h \in Slots :
        (files[h].open /\ hist[h].clean /\ hist[h].origin = "append") =>
            data[files[h].data] = hist[h].expect

C8_Append == [][C8_AppendCursor]_vars /\ []C8_AppendAfterPrior

\* Bytes have just gone through an append handle that found content there.
C8_Witness ==
    /\ ret.op = "write" /\ ret.out = "Ok" /\ ret.n > 0 /\ ret.at > 0
    /\ hist[ret.h].clean /\ hist[ret.h].origin = "append"
    /\ Len(hist[ret.h].expect) = ret.at + ret.n

\* C9: seek moves the cursor to n for Start(n), to L + n for End(n), to
\* p + n for Current(n); a negative position is refused with InvalidInput
\* and the cursor stays; the buffers and the other cursors are never touched.
C9_SeekOutcome ==
    [][\A h \in Slots, style \in SeekStyles, n \in U64 \cup I64 :
          (ret'.op = "seek" /\ Seek(h, style, n, Pow2(PosBits) - 1)) =>
              LET p == files[h].pos
                  L == Len(data[files[h].data])
                  target == IF style = "Start" THEN n ELSE IF style = "End" THEN L + n ELSE p + n
              IN  /\ IF target < 0
                     THEN ret'.out = "InvalidInput" /\ files'[h].pos = p
                     ELSE ret'.out = "Ok" /\ ret'.n = target /\ files'[h].pos = target
                  /\ data' = data
                  /\ \A g \in Slots \ {h} : files'[g] = files[g]]_vars

\* C10: create(P) and append(P) have two outcomes for every path string: a
\* MemoryFile, or a NotFound error; the caller is never aborted.
C10_CreateAppendOutcomes ==
    ret.op \in {"create", "append"} =>
        \/ ret.out = "Ok" /\ ret.file.open
        \/ ret.out = "NotFound"

\* C11: a call of open, metadata, read_dir, create or append that returns an
\* error changes nothing: the nodes and their kinds, every buffer and every
\* MemoryFile with its cursor are the ones before the call.
C11_ErrorsChangeNothing ==
    [][(/\ ret'.op \in {"open", "metadata", "read_dir", "create", "append"}
        /\ ret'.out = "NotFound") =>
           /\ root' = root
           /\ data' = data
           /\ files' = files]_vars

\* A create has just reported a missing parent while a buffer held bytes and
\* a MemoryFile stood past the start.
C11_Witness ==
    /\ ret.op = "create" /\ ret.out = "NotFound"
    /\ \E h \in Slots : files[h].open /\ files[h].pos > 0 /\ Len(data[files[h].data]) > 0

\* A segment of a path: a name with a character in it and no separator.
IsSegment(name) == name # <<>> /\ ~HasSlash(name)

\* C12: read_dir(D) of a directory path D that resolves gives one entry for
\* each direct child the calls so far made under D and nothing else; an
\* entry is D, a separator and the child's name, a segment some call named.
C12_ReadDirExact ==
    (ret.op = "read_dir" /\ ret.out = "Ok") =>
        LET D == ret.path
            children == Children(root, with_node(root, D).node)
        IN  /\ \A e \in ret.val.entries :
                   \E k \in children : IsSegment(Last(k)) /\ e = D \o Slash \o Last(k)
            /\ \A k \in children : (D \o Slash \o Last(k)) \in ret.val.entries
            /\ Cardinality(ret.val.entries) = Cardinality(children)

\* C13: every absolute path string P other than "/", a trailing or a doubled
\* separator included, has a parent, and pushing P's file_name onto P's
\* parent gives the string P back; "/" has no parent.
C13_ParentPushRoundTrip ==
    /\ \A P \in PathStrings :
           (IsAbsolute(P) /\ P # Slash) =>
               /\ (ret.op = "parent" /\ ret.path = P) => ret.val.some
               /\ (/\ ret.op = "push"
                   /\ parent(P).some
                   /\ ret.path = parent(P).val
                   /\ ret.val.seg = file_name(P).val) => ret.val.path = P
    /\ (ret.op = "parent" /\ ret.path = Slash) => ~ret.val.some

\* C16: the buffer of every Directory node is empty in every state, so
\* metadata(P) says length 0 for every path P that resolves to a Directory,
\* also after open, create or append on the directory's path and a write
\* through the MemoryFile they returned.
C16_DirectoryBufferEmpty ==
    /\ \A k \in DOMAIN root : root[k] = Directory => data[k] = <<>>
    /\ \A P \in FilePaths :
           (metadata(P).ok /\ is_dir(metadata(P))) => metadata(P).len = 0

\* C17: a path that resolves to a node of some kind resolves to a node of
\* that kind after every later call, create on a directory's path and mkdir
\* on a file's path included; "/" resolves to a Directory in every state.
C17_KindKept ==
    \A P \in TreePaths :
        (root' # root /\ metadata(P).ok) =>
            /\ metadata_in(root', data', P).ok
            /\ metadata_in(root', data', P).kind = metadata(P).kind

C17_RootIsDirectory == metadata(Slash).ok /\ is_dir(metadata(Slash))

C17_ResolutionStable == [][C17_KindKept]_vars /\ []C17_RootIsDirectory

\* A mkdir has just returned on the path of a File, which is a File still,
\* while another path resolves to a Directory.
C17_Witness ==
    /\ ret.op = "mkdir"
    /\ metadata(ret.path).ok /\ is_file(metadata(ret.path))
    /\ \E P \in TreePaths :
           /\ metadata(P).ok /\ is_dir(metadata(P))
           /\ parent(P).some /\ P # ret.path

\* C18: a node of kind File has no children in any state, also after mkdir,
\* create or append on a path that runs through an existing File.
C18_FileHasNoChildren ==
    \A k \in DOMAIN root : root[k] = File => Children(root, k) = {}

\* C19: the MemoryFile that open, create or append returns for a path is on
\* the buffer of the node the path resolves to; once a write through one
\* MemoryFile has returned, a read through any other MemoryFile on that
\* node whose cursor is in the written range gives the written bytes, and
\* metadata of the path gives the buffer's new length.
C19_SharedBuffer ==
    [][/\ (ret'.op \in {"open", "create", "append"} /\ ret'.out = "Ok") =>
              /\ with_node(root', ret'.path).ok
              /\ ret'.file.data = with_node(root', ret'.path).node
       /\ \A h \in Slots, buf \in Chunks :
              (ret'.op = "write" /\ Write(h, buf)) =>
                  LET k == files[h].pos
                      node == files[h].data
                  IN  /\ \A g \in Slots \ {h}, cap \in Capacities :
                             (/\ files[g].open /\ files[g].data = node
                              /\ k <= files[g].pos /\ files[g].pos < k + Len(buf)) =>
                                 LET r == read(data'[files'[g].data], files'[g].pos, cap)
                                 IN  /\ ~r.panic
                                     /\ r.n = Min(cap, Len(data'[node]) - files[g].pos)
                                     /\ \A i \in 1..r.n :
                                            files[g].pos + i <= k + Len(buf) =>
                                                r.bytes[i] = buf[files[g].pos + i - k]
                      /\ \A P \in FilePaths :
                             (with_node(root', P).ok /\ with_node(root', P).node = node) =>
                                 metadata_in(root', data', P).len = Max(Len(data[node]), k + Len(buf))]_vars

\* A write has just landed on bytes that another MemoryFile on the same node
\* has its cursor in.
C19_Witness ==
    /\ ret.op = "write" /\ ret.out = "Ok" /\ ret.n = MaxChunk
    /\ \E g \in Slots \ {ret.h} :
           /\ files[g].open /\ files[g].data = files[ret.h].data
           /\ ret.at < files[g].pos /\ files[g].pos < ret.at + ret.n

\* C20: mkdir(P) on an absolute path P that exists, "/" and paths with a
\* trailing or a doubled separator included, adds no node, so every read_dir
\* gives what it gave before; and no directory ever has a child whose name
\* is the empty string.
C20_MkdirAddsNothing ==
    \A P \in TreePaths :
        (ret'.op = "mkdir" /\ IsAbsolute(P) /\ exists(P) /\ Mkdir(P)) =>
            /\ root' = root
            /\ data' = data

C20_NoEmptyName == \A k \in DOMAIN root : k # Root => Last(k) # <<>>

C20_MkdirExisting == [][C20_MkdirAddsNothing]_vars /\ []C20_NoEmptyName

\* C14: with several threads calling the path operations and read, write and
\* seek on their MemoryFiles, no thread waits for the tree's lock while it
\* holds a buffer's lock, and under fair scheduling every call that has
\* started comes to its end.
C14_NoTreeWaitUnderBuffer ==
    \A t \in Threads : threads[t].pc = "wait_tree" => HeldBy(t) = {}

C15_TreeLockReleasedFirst ==
    \A t \in Threads :
        ~(\E g \in HeldBy(t) : g.lock = TreeLock) \/ ~(\E g \in HeldBy(t) : g.lock # TreeLock)

====
